---- MODULE Spec2Model ----
(***************************************************************************)
(* Claim verification and validator consensus of verixa-backend            *)
(* (src/app/api/claims.py).  The handlers are stateless; all state is in   *)
(* the relational store.  Statements run under PostgreSQL's default READ   *)
(* COMMITTED isolation (psycopg2, no isolation level is set anywhere): a   *)
(* statement sees the rows committed before it started plus the rows its   *)
(* own transaction wrote, an UPDATE or an ON CONFLICT upsert waits for the *)
(* transaction holding the row, and then works on the committed row.       *)
(* A handler that issues several statements before its commit is one       *)
(* action per statement; a handler that issues one statement and commits   *)
(* is one action.                                                          *)
(***************************************************************************)
EXTENDS Integers, FiniteSets, Sequences, TLC

\* ---------------------------------------------------------------- bounds
NumProcs == 2          \* concurrent request handlers
NumTasks == 1          \* external (on-chain) task ids
NumValidators == 3     \* validator user ids
MaxRequired == 2       \* largest required_validators a caller sends
MaxStatusUpdates == 2  \* update_task_status requests served in one behaviour
MaxClaims == 2         \* claim rows inserted in one behaviour
MaxDocs == 1           \* issued documents
NumPatients == 2       \* patient ids
NumInsurances == 2     \* insurance ids
NumIssuers == 1        \* issuer ids
MaxEvalRequests == 2   \* record_ai_evaluations requests served in one behaviour
EvaluatorRequests == 1 \* evaluation requests next to claim creation
TriageBatch == 1       \* evaluations per request while claims are triaged
MaxBatch == 2          \* evaluations in one request
MaxPayRequests == 2    \* record_payments requests served in one behaviour
MaxPayBatch == 2       \* payments in one request

Procs == 1..NumProcs
TaskIds == 1..NumTasks
Validators == 1..NumValidators
RequiredInputs == 0..MaxRequired
Patients == 1..NumPatients
Insurances == 1..NumInsurances
Issuers == 1..NumIssuers
DocIds == 1..MaxDocs

\* A claim id that no claim row ever has (claim ids are a serial from 1).
MissingClaim == 0
\* issued_by = None, issued_doc_id = None (ids are serials from 1).
NoIssuer == 0
NoDoc == 0
\* The cookie / payload of a caller whose identity cannot be resolved.
NoUser == 0
\* SQL NULL for an optional text input.
NULL == "NULL"

VARIABLES
  claims,    \* table claims: set of rows, uncommitted ones included
  docs,      \* table issuer_issued_medical_docs: set of rows
  evals,     \* table ai_claim_evaluations: set of rows, uncommitted ones included
  seq,       \* the serial sequences of claims and issued documents
  clock,     \* NOW() of the next transaction
  tasks,     \* table tasks: set of rows
  subs,      \* table validator_submissions: set of rows, uncommitted ones included
  pc,        \* per handler: the statement it is about to run
  loc,       \* per handler: the local variables of the running request
  updates,   \* number of update_task_status requests served
  flips,     \* per task_id: how often the quorum UPDATE changed a row
  payments,  \* table payments: the rows in the order of their serial id
  payreqs    \* number of record_payments requests received

vars == <<claims, docs, evals, seq, clock, tasks, subs, pc, loc, updates, flips,
          payments, payreqs>>
paymentVars == <<payments, payreqs>>

ledgerVars == <<claims, docs, evals, seq, clock>>
consensusVars == <<tasks, subs, updates, flips>>

\* ------------------------------------------------------------ SQL helpers

\* COALESCE(a, b)
COALESCE(a, b) == IF a = NULL THEN b ELSE a

\* Python's str.lower() / SQL LOWER() on the strings the model sends.
LOWER(s) ==
  CASE s = "PENDING" -> "pending"
    [] s = "Completed" -> "completed"
    [] s = "AUTO" -> "auto"
    [] s = "Manual" -> "manual"
    [] s = "Rejected" -> "rejected"
    [] s = "Approved" -> "approved"
    [] OTHER -> s

\* Python's `x or None` on an optional string (e.bucket or None, body.tx_hash
\* or None): the empty string becomes None, which is stored as NULL.
OrNone(bucket) == IF bucket = NULL \/ bucket = "" THEN NULL ELSE bucket

\* The rows of tasks with this external task_id (WHERE task_id = %s).
TasksById(t) == {r \in tasks : r.task_id = t}

\* A row another transaction has written and not yet committed is locked.
LockedByOther(r, p) == r.txn # 0 /\ r.txn # p

\* The rows of validator_submissions a statement of transaction p sees:
\* committed rows and the rows p itself inserted.
VisibleSubs(p) == {r \in subs : ~r.fresh \/ r.txn = p}

\* SELECT COUNT(*) FROM validator_submissions WHERE task_id = %s
CountSubmissionsSeen(p, t) == Cardinality({r \in VisibleSubs(p) : r.task_id = t})

\* The validators with a submission row for the task, committed or not.
DistinctValidators(t) == {r.validator_user_id : r \in {x \in subs : x.task_id = t}}

\* The validators with a committed submission row for the task.
CommittedValidators(t) ==
  {r.validator_user_id : r \in {x \in subs : x.task_id = t /\ ~x.fresh}}

Idle == [op |-> "none"]

\* ------------------------------------------------------------------- Init
Init ==
  /\ claims = {}
  /\ docs = {}
  /\ evals = {}
  /\ seq = [claim |-> 1, doc |-> 1]
  /\ clock = 1
  /\ tasks = {}
  /\ subs = {}
  /\ pc = [p \in Procs |-> "idle"]
  /\ loc = [p \in Procs |-> Idle]
  /\ updates = 0
  /\ flips = [t \in TaskIds |-> 0]
  /\ payments = <<>>
  /\ payreqs = 0

\* ----------------------------------------------------------- Task Registry

\* The precision of Python's decimal context (getcontext().prec, the default).
DecimalPrec == 28

\* A reward_pol string.  One that reads as a decimal number is its sign,
\* coefficient and exponent, the way Decimal(str) keeps it: "1.2399" is
\* Dec(FALSE, 12399, -4).  Blank is "" or " ", NotANumber is a string such as
\* "abc".
Dec(neg, coeff, exp) == [kind |-> "dec", neg |-> neg, coeff |-> coeff, exp |-> exp]
Blank == [kind |-> "blank", neg |-> FALSE, coeff |-> 0, exp |-> 0]
NotANumber == [kind |-> "text", neg |-> FALSE, coeff |-> 0, exp |-> 0]
IsDec(reward_pol) == reward_pol.kind = "dec"

\* The reward_pol column: NULL, or a number of thousandths.
NullReward == [null |-> TRUE, thousandths |-> 0]
Reward(k) == [null |-> FALSE, thousandths |-> k]

RECURSIVE Pow10(_)
Pow10(n) == IF n = 0 THEN 1 ELSE 10 * Pow10(n - 1)

RECURSIVE Digits(_)
Digits(n) == IF n < 10 THEN 1 ELSE 1 + Digits(n \div 10)

\* quantize raises InvalidOperation when the result would have more digits
\* than the context precision; a zero never does.
QuantizeRaises(d) == d.coeff # 0 /\ Digits(d.coeff) + d.exp + 3 > DecimalPrec

\* Decimal.quantize(Decimal("0.001"), rounding=...): the result in
\* thousandths, the sign included (NUMERIC has no negative zero).
QuantizeDown(d) ==
  LET k == IF d.exp >= -3 THEN d.coeff * Pow10(d.exp + 3)
           ELSE d.coeff \div Pow10(-3 - d.exp)
  IN IF d.neg THEN 0 - k ELSE k

\* float(body.reward_pol) read back by Decimal(str(...)): up to 15 significant
\* digits the shortest repr of the float is the number that was sent.
FloatOf(d) == d

\* norm_reward of save_task: None for a blank string; the quantized value;
\* when that raises, the quantized value of the float; when that raises as
\* well, None.  A string that is no number raises in Decimal and in float.
NormReward(reward_pol) ==
  IF reward_pol = Blank THEN NullReward
  ELSE IF IsDec(reward_pol) /\ ~QuantizeRaises(reward_pol)
       THEN Reward(QuantizeDown(reward_pol))
  ELSE IF IsDec(reward_pol) /\ ~QuantizeRaises(FloatOf(reward_pol))
       THEN Reward(QuantizeDown(FloatOf(reward_pol)))
  ELSE NullReward

\* One POL.
OnePol == Dec(FALSE, 1, 0)

\* POST /web3/tasks: one INSERT and a commit.  status is COALESCE(%s,'pending').
\* task_id is the key of the task everywhere else in the code (the schema keeps
\* it unique): a second INSERT with the same task_id raises and answers 500.
save_task(t, c, req, reward_pol, st, tx_hash) ==
  /\ TasksById(t) = {}
  /\ tasks' = tasks \cup {[task_id |-> t, claim_id |-> c,
                           required_validators |-> req,
                           reward_pol |-> NormReward(reward_pol),
                           status |-> COALESCE(st, "pending"),
                           tx_hash |-> tx_hash, txn |-> 0]}
  /\ UNCHANGED <<paymentVars, subs, pc, loc, updates, flips, ledgerVars>>

\* PATCH /tasks/{task_id}/status as it would be with SET tx_hash = %s.
update_task_status_set_hash(t, st, tx_hash) ==
  /\ updates < MaxStatusUpdates
  /\ updates' = updates + 1
  /\ LOWER(st) \in {"pending", "completed", "cancelled"}
  /\ TasksById(t) # {}
  /\ \A r \in TasksById(t) : r.txn = 0
  /\ tasks' = {IF r.task_id = t
                 THEN [r EXCEPT !.status = LOWER(st), !.tx_hash = OrNone(tx_hash)]
                 ELSE r : r \in tasks}
  /\ UNCHANGED <<paymentVars, subs, pc, loc, flips, ledgerVars>>

\* PATCH /tasks/{task_id}/status: one UPDATE ... WHERE task_id = %s and a commit.
\* 400 for a status outside the three values, 404 when no row matched.
\* SET status = %s, tx_hash = COALESCE(%s, tx_hash) with (body.tx_hash or None).
update_task_status(t, st, tx_hash) ==
  LET status == LOWER(st) IN
  /\ updates < MaxStatusUpdates
  /\ updates' = updates + 1
  /\ status \in {"pending", "completed", "cancelled"}
  /\ TasksById(t) # {}
  /\ \A r \in TasksById(t) : r.txn = 0
  /\ tasks' = {IF r.task_id = t
                 THEN [r EXCEPT !.status = status,
                                !.tx_hash = COALESCE(OrNone(tx_hash), r.tx_hash)]
                 ELSE r : r \in tasks}
  /\ UNCHANGED <<paymentVars, subs, pc, loc, flips, ledgerVars>>

\* ---------------------------------------------- Validator Consensus Aggregator

\* Resolve user_id: cookie > explicit id > wallet lookup.  0 stands for a missing
\* cookie / field; wallet is the user the wallet belongs to, or -1 for a wallet
\* no user has.
ResolveUser(cookie, explicit, wallet) ==
  IF cookie # NoUser THEN cookie
  ELSE IF explicit # NoUser THEN explicit
  ELSE IF wallet > 0 THEN wallet
  ELSE NoUser

\* What the resolution yields over every cookie, explicit id and wallet sent.
ResolvedUsers ==
  {ResolveUser(cookie, explicit, wallet) :
     cookie \in {NoUser} \cup Validators, explicit \in {NoUser} \cup Validators,
     wallet \in {-1, NoUser} \cup Validators}

\* A plain INSERT, without the ON CONFLICT clause.
InsertSubmission(rows, p, t, v, result_cid, tx_hash) ==
  rows \cup {[n |-> 1 + Cardinality({r \in rows : r.task_id = t /\ r.validator_user_id = v}),
              task_id |-> t, validator_user_id |-> v, result_cid |-> result_cid,
              tx_hash |-> tx_hash, status |-> "submitted", txn |-> p, fresh |-> TRUE]}

\* INSERT ... ON CONFLICT (task_id, validator_user_id) DO UPDATE: the new table.
\* The row of the key, when there is one, is rewritten by transaction p (the
\* others read its old values until p commits, see SubmissionRewritten);
\* otherwise a fresh row is inserted with (result_cid, tx_hash, 'submitted').
\* n tells the rows of one key apart (the serial id does in the table).
UpsertSubmission(rows, p, t, v, result_cid, tx_hash) ==
  IF \E r \in rows : r.task_id = t /\ r.validator_user_id = v
  THEN {IF r.task_id = t /\ r.validator_user_id = v THEN [r EXCEPT !.txn = p] ELSE r
        : r \in rows}
  ELSE rows \cup {[n |-> 1, task_id |-> t, validator_user_id |-> v,
                   result_cid |-> result_cid, tx_hash |-> tx_hash,
                   status |-> "submitted", txn |-> p, fresh |-> TRUE]}

\* The DO UPDATE as it would be with SET tx_hash = EXCLUDED.tx_hash.
SubmissionOverwritten(r, result_cid, tx_hash) ==
  [r EXCEPT !.result_cid = result_cid, !.tx_hash = tx_hash, !.status = "submitted"]

\* The row the DO UPDATE leaves: SET result_cid = EXCLUDED.result_cid,
\* tx_hash = COALESCE(EXCLUDED.tx_hash, validator_submissions.tx_hash),
\* status = 'submitted'.
SubmissionRewritten(r, result_cid, tx_hash) ==
  [r EXCEPT !.result_cid = result_cid, !.tx_hash = COALESCE(tx_hash, r.tx_hash),
            !.status = "submitted"]

\* The quorum update without its status guard.
UnguardedUpdateMatches(r, t) == r.task_id = t

\* The WHERE clause of the quorum update:
\* UPDATE tasks SET status = 'completed' WHERE task_id = %s AND status <> 'completed'
QuorumUpdateMatches(r, t) == r.task_id = t /\ r.status # "completed"

\* The HTTP code the checks of create_validator_submission answer: 404 for a
\* wallet no user has (the wallet is looked up only when neither the cookie nor
\* the body gave a user), 400 when no user is resolved, 404 when no task has
\* the task_id, else 200.
SubmissionCheck(t, cookie, explicit, wallet) ==
  IF cookie = NoUser /\ explicit = NoUser /\ wallet = -1 THEN 404
  ELSE IF ResolveUser(cookie, explicit, wallet) = NoUser THEN 400
  ELSE IF TasksById(t) = {} THEN 404
  ELSE 200

\* The request as it would go on without the two checks.
create_validator_submission_begin_unchecked(p, t, user_id, result_cid, tx_hash) ==
  /\ pc[p] = "idle"
  /\ pc' = [pc EXCEPT ![p] = "sub_upsert"]
  /\ loc' = [loc EXCEPT ![p] =
               [op |-> "submit", task_id |-> t, user_id |-> user_id,
                result_cid |-> result_cid, tx_hash |-> OrNone(tx_hash),
                required_validators |->
                  IF TasksById(t) = {} THEN 0
                  ELSE (CHOOSE r \in TasksById(t) : TRUE).required_validators,
                conflict |-> FALSE, count |-> 0, rows |-> 0,
                task_completed |-> FALSE]]
  /\ UNCHANGED <<paymentVars, tasks, subs, updates, flips, ledgerVars>>

\* Resolve the caller and read required_validators of the task.  An unresolved
\* caller answers 400 (404 for an unknown wallet), an unknown task answers 404;
\* both roll back and leave no trace.
create_validator_submission_begin(p, t, user_id, result_cid, tx_hash) ==
  /\ pc[p] = "idle"
  /\ IF user_id = NoUser \/ TasksById(t) = {}
     THEN UNCHANGED <<paymentVars, pc, loc>>
     ELSE /\ pc' = [pc EXCEPT ![p] = "sub_upsert"]
          /\ loc' = [loc EXCEPT ![p] =
                       [op |-> "submit", task_id |-> t, user_id |-> user_id,
                        result_cid |-> result_cid, tx_hash |-> OrNone(tx_hash),
                        required_validators |->
                          (CHOOSE r \in TasksById(t) : TRUE).required_validators,
                        conflict |-> FALSE, count |-> 0, rows |-> 0,
                        task_completed |-> FALSE]]
  /\ UNCHANGED <<paymentVars, tasks, subs, updates, flips, ledgerVars>>

\* The upsert.  It waits while another transaction holds the row of the key.
create_validator_submission_upsert(p) ==
  LET t == loc[p].task_id
      v == loc[p].user_id
      hit == {r \in subs : r.task_id = t /\ r.validator_user_id = v} IN
  /\ pc[p] = "sub_upsert"
  /\ \A r \in hit : ~LockedByOther(r, p)
  /\ subs' = UpsertSubmission(subs, p, t, v, loc[p].result_cid, loc[p].tx_hash)
  /\ loc' = [loc EXCEPT ![p].conflict = (hit # {})]
  /\ pc' = [pc EXCEPT ![p] = "sub_count"]
  /\ UNCHANGED <<paymentVars, tasks, updates, flips, ledgerVars>>

\* SELECT COUNT(*) ... WHERE task_id = %s
create_validator_submission_count(p) ==
  /\ pc[p] = "sub_count"
  /\ loc' = [loc EXCEPT ![p].count = CountSubmissionsSeen(p, loc[p].task_id)]
  /\ pc' = [pc EXCEPT ![p] = "sub_complete"]
  /\ UNCHANGED <<paymentVars, tasks, subs, updates, flips, ledgerVars>>

\* if count >= required_validators: the quorum UPDATE, then task_completed = True.
\* The UPDATE waits while another transaction holds a row of the task.
create_validator_submission_complete(p) ==
  LET t == loc[p].task_id
      hit == {r \in tasks : QuorumUpdateMatches(r, t)} IN
  /\ pc[p] = "sub_complete"
  /\ IF loc[p].count >= loc[p].required_validators
     THEN /\ \A r \in TasksById(t) : ~LockedByOther(r, p)
          /\ tasks' = {IF r \in hit THEN [r EXCEPT !.txn = p] ELSE r : r \in tasks}
          /\ loc' = [loc EXCEPT ![p].rows = Cardinality(hit),
                                ![p].task_completed = TRUE]
          /\ flips' = [flips EXCEPT ![t] = @ + Cardinality(hit)]
     ELSE UNCHANGED <<paymentVars, tasks, loc, flips>>
  /\ pc' = [pc EXCEPT ![p] = "sub_commit"]
  /\ UNCHANGED <<paymentVars, subs, updates, ledgerVars>>

\* conn.commit() and the response.
create_validator_submission_commit(p) ==
  /\ pc[p] = "sub_commit"
  /\ subs' = {IF r.txn # p THEN r
               ELSE IF r.fresh THEN [r EXCEPT !.txn = 0, !.fresh = FALSE]
               ELSE [SubmissionRewritten(r, loc[p].result_cid, loc[p].tx_hash)
                       EXCEPT !.txn = 0]
               : r \in subs}
  /\ tasks' = {IF r.txn = p THEN [r EXCEPT !.txn = 0, !.status = "completed"] ELSE r
               : r \in tasks}
  /\ pc' = [pc EXCEPT ![p] = "idle"]
  /\ loc' = [loc EXCEPT ![p] = Idle]
  /\ UNCHANGED <<paymentVars, updates, flips, ledgerVars>>

create_validator_submission(p, task_ids, cids, hashes) ==
  \/ \E t \in task_ids, user_id \in ResolvedUsers, result_cid \in cids, tx_hash \in hashes :
       create_validator_submission_begin(p, t, user_id, result_cid, tx_hash)
  \/ create_validator_submission_upsert(p)
  \/ create_validator_submission_count(p)
  \/ create_validator_submission_complete(p)
  \/ create_validator_submission_commit(p)


\* ------------------------------------------------------------ Claim Ledger

\* The rows of a table that are committed: what another request can read.
Committed(rows) == {r \in rows : ~r.fresh}

\* POST /issuer/issued-docs: one INSERT and a commit.  The INSERT names no
\* is_active column: a new document is active by the column's default.
issue_report(patient_id, issuer_id) ==
  /\ seq.doc <= MaxDocs
  /\ docs' = docs \cup {[id |-> seq.doc, patient_id |-> patient_id,
                         document_url |-> "issued", issuer_id |-> issuer_id,
                         is_active |-> TRUE, txn |-> 0]}
  /\ seq' = [seq EXCEPT !.doc = @ + 1]
  /\ UNCHANGED <<paymentVars, claims, evals, clock, pc, loc, consensusVars>>

\* not final_url: None and the empty string are both falsy.
Falsy(url) == url = NULL \/ url = ""

\* if derived_issuer is not None: issued_by = derived_issuer
COALESCE2(derived_issuer, issued_by) ==
  IF derived_issuer # NoIssuer THEN derived_issuer ELSE issued_by

\* issued_by is None, after the issuer of the issued document, if it has
\* one, replaced the caller's.
IssuerNeverMissing(issued_by) == FALSE
IssuerMissing(issued_by) == issued_by = NoIssuer

\* The checks of create_claim before its INSERT (lines 76-134): the HTTP code
\* it answers and, for 200, the values it goes on with.
CreateClaimCheck(patient_id, is_verified, issued_by, issued_doc_id, report_url, file, upload_ok) ==
  LET found == {d \in docs : d.id = issued_doc_id}
      doc == CHOOSE d \in found : TRUE
      reject(code) == [code |-> code, final_url |-> NULL, issued_by |-> NoIssuer,
                       used_issued_doc_id |-> NoDoc]
  IN
  IF ~is_verified
  THEN IF file = NULL /\ Falsy(report_url) THEN reject(400)
       ELSE IF file # NULL /\ ~upload_ok THEN reject(500)
       ELSE IF IssuerMissing(issued_by) THEN reject(400)
       ELSE [code |-> 200,
             final_url |-> IF file # NULL THEN "upload" ELSE report_url,
             issued_by |-> issued_by, used_issued_doc_id |-> NoDoc]
  ELSE IF issued_doc_id # NoDoc
       THEN IF found = {} THEN reject(400)
            ELSE IF doc.patient_id # patient_id THEN reject(400)
            ELSE IF ~doc.is_active THEN reject(400)
            ELSE IF Falsy(doc.document_url) THEN reject(400)
            ELSE IF IssuerMissing(COALESCE2(doc.issuer_id, issued_by)) THEN reject(400)
            ELSE [code |-> 200, final_url |-> doc.document_url,
                  issued_by |-> COALESCE2(doc.issuer_id, issued_by),
                  used_issued_doc_id |-> doc.id]
       ELSE IF Falsy(report_url) THEN reject(400)
       ELSE IF IssuerMissing(issued_by) THEN reject(400)
       ELSE [code |-> 200, final_url |-> report_url, issued_by |-> issued_by,
             used_issued_doc_id |-> NoDoc]

\* The WHERE clause of the consume step:
\* UPDATE issuer_issued_medical_docs SET is_active = FALSE WHERE id = %s AND is_active = TRUE
ConsumeSkipped(d, id) == FALSE
ConsumeMatches(d, id) == d.id = id /\ d.is_active

\* Validation.  The document is read on a connection of its own, which is
\* closed before the INSERT's connection is opened.
create_claim_begin(p, patient_id, insurance_id, is_verified, issued_by, issued_doc_id, report_url, file, upload_ok) ==
  LET chk == CreateClaimCheck(patient_id, is_verified, issued_by, issued_doc_id,
                              report_url, file, upload_ok) IN
  /\ pc[p] = "idle"
  /\ seq.claim + Cardinality({q \in Procs : pc[q] = "cc_insert"}) <= MaxClaims
  /\ chk.code = 200
  /\ pc' = [pc EXCEPT ![p] = "cc_insert"]
  /\ loc' = [loc EXCEPT ![p] =
               [op |-> "create", patient_id |-> patient_id,
                insurance_id |-> insurance_id, is_verified |-> is_verified,
                final_url |-> chk.final_url, issued_by |-> chk.issued_by,
                used_issued_doc_id |-> chk.used_issued_doc_id,
                claim_id |-> 0, rows |-> 0]]
  /\ UNCHANGED <<paymentVars, ledgerVars, consensusVars>>

\* The status literal of the INSERT.
InitialStatusApproved == "approved"
InitialStatus == "pending"

\* INSERT INTO claims ... VALUES (..., 'pending', NOW()) RETURNING claim_id.
\* issued_doc_id is no column of the table: it records which document the
\* request went on with.
create_claim_insert(p) ==
  /\ pc[p] = "cc_insert"
  /\ claims' = claims \cup
       {[claim_id |-> seq.claim, patient_id |-> loc[p].patient_id,
         insurance_id |-> loc[p].insurance_id, report_url |-> loc[p].final_url,
         is_verified |-> loc[p].is_verified, issued_by |-> loc[p].issued_by,
         status |-> InitialStatus, issued_doc_id |-> loc[p].used_issued_doc_id,
         txn |-> p, fresh |-> TRUE]}
  /\ seq' = [seq EXCEPT !.claim = @ + 1]
  /\ loc' = [loc EXCEPT ![p].claim_id = seq.claim]
  /\ pc' = [pc EXCEPT ![p] =
              IF loc[p].used_issued_doc_id # NoDoc THEN "cc_lock" ELSE "cc_commit"]
  /\ UNCHANGED <<paymentVars, docs, evals, clock, consensusVars>>

\* The consume step.  The UPDATE waits while another transaction holds the
\* document row; how many rows it changed is not looked at.
create_claim_lock(p) ==
  LET id == loc[p].used_issued_doc_id
      hit == {d \in docs : ConsumeMatches(d, id)} IN
  /\ pc[p] = "cc_lock"
  /\ \A d \in docs : d.id = id => ~LockedByOther(d, p)
  /\ docs' = {IF d \in hit THEN [d EXCEPT !.txn = p] ELSE d : d \in docs}
  /\ loc' = [loc EXCEPT ![p].rows = Cardinality(hit)]
  /\ pc' = [pc EXCEPT ![p] = "cc_commit"]
  /\ UNCHANGED <<paymentVars, claims, evals, seq, clock, consensusVars>>

\* A statement of the transaction raises: conn.rollback() and a 500.
create_claim_rollback(p) ==
  /\ pc[p] \in {"cc_lock", "cc_commit"}
  /\ claims' = {c \in claims : c.txn # p}
  /\ docs' = {IF d.txn = p THEN [d EXCEPT !.txn = 0] ELSE d : d \in docs}
  /\ pc' = [pc EXCEPT ![p] = "idle"]
  /\ loc' = [loc EXCEPT ![p] = Idle]
  /\ UNCHANGED <<paymentVars, evals, seq, clock, consensusVars>>

\* conn.commit() and the response.
create_claim_commit(p) ==
  /\ pc[p] = "cc_commit"
  /\ claims' = {IF c.txn = p THEN [c EXCEPT !.txn = 0, !.fresh = FALSE] ELSE c
                : c \in claims}
  /\ docs' = {IF d.txn = p THEN [d EXCEPT !.txn = 0, !.is_active = FALSE] ELSE d
              : d \in docs}
  /\ pc' = [pc EXCEPT ![p] = "idle"]
  /\ loc' = [loc EXCEPT ![p] = Idle]
  /\ UNCHANGED <<paymentVars, evals, seq, clock, consensusVars>>

create_claim(p) ==
  \/ \E patient_id \in Patients, insurance_id \in Insurances, is_verified \in BOOLEAN,
        issued_by \in {NoIssuer} \cup Issuers, issued_doc_id \in {NoDoc} \cup 1..(MaxDocs + 1),
        report_url \in {NULL, "", "url"}, file \in {NULL, "file"}, upload_ok \in BOOLEAN :
       create_claim_begin(p, patient_id, insurance_id, is_verified, issued_by,
                          issued_doc_id, report_url, file, upload_ok)
  \/ create_claim_insert(p)
  \/ create_claim_lock(p)
  \/ create_claim_rollback(p)
  \/ create_claim_commit(p)


\* ------------------------------------------------------- AI evaluator sink

\* PATCH /claims/{claim_id}/status: one UPDATE and a commit.  The UPDATE sees
\* committed rows and waits for a row another transaction has written.
update_claim_status_and_verify(claim_id, st) ==
  LET hit == {c \in Committed(claims) : c.claim_id = claim_id} IN
  /\ LOWER(st) \in {"approved", "rejected"}
  /\ hit # {}
  /\ \A c \in hit : c.txn = 0
  /\ claims' = {IF c \in hit THEN [c EXCEPT !.status = LOWER(st), !.is_verified = TRUE]
                ELSE c : c \in claims}
  /\ UNCHANGED <<paymentVars, docs, evals, seq, clock, pc, loc, consensusVars>>
update_claim_status(claim_id, st) ==
  LET status == LOWER(st)
      hit == {c \in Committed(claims) : c.claim_id = claim_id} IN
  /\ status \in {"approved", "rejected"}
  /\ hit # {}
  /\ \A c \in hit : c.txn = 0
  /\ claims' = {IF c \in hit THEN [c EXCEPT !.status = status] ELSE c : c \in claims}
  /\ UNCHANGED <<paymentVars, docs, evals, seq, clock, pc, loc, consensusVars>>

\* POST /claims/bulk-set-verified: UPDATE claims SET is_verified = TRUE
\* WHERE claim_id = ANY(ids), as it would be if it approved as well.
bulk_set_verified_and_approve(ids) ==
  LET hit == {c \in Committed(claims) : c.claim_id \in ids} IN
  /\ hit # {}
  /\ \A c \in hit : c.txn = 0
  /\ claims' = {IF c \in hit THEN [c EXCEPT !.is_verified = TRUE, !.status = "approved"]
                ELSE c : c \in claims}
  /\ UNCHANGED <<paymentVars, docs, evals, seq, clock, pc, loc, consensusVars>>

\* POST /claims/bulk-set-verified: UPDATE claims SET is_verified = TRUE
\* WHERE claim_id = ANY(ids); 404 and a rollback when no row was changed.
bulk_set_verified(ids) ==
  LET hit == {c \in Committed(claims) : c.claim_id \in ids} IN
  /\ ids # {}
  /\ hit # {}
  /\ \A c \in hit : c.txn = 0
  /\ claims' = {IF c \in hit THEN [c EXCEPT !.is_verified = TRUE] ELSE c : c \in claims}
  /\ UNCHANGED <<paymentVars, docs, evals, seq, clock, pc, loc, consensusVars>>

\* RETURNING claim_id of the bulk UPDATEs: the ids the response lists as updated.
Updated(ids) == {c.claim_id : c \in {c \in Committed(claims) : c.claim_id \in ids}}

\* POST /claims/bulk-status: UPDATE claims SET status = %s WHERE claim_id =
\* ANY(ids); 400 for another status or no ids, 404 when no row was changed.
bulk_update_every_claim_status(ids, st) ==
  /\ LOWER(st) \in {"approved", "rejected"}
  /\ Updated(ids) # {}
  /\ \A c \in claims : c.txn = 0
  /\ claims' = {[c EXCEPT !.status = LOWER(st)] : c \in claims}
  /\ UNCHANGED <<paymentVars, docs, evals, seq, clock, pc, loc, consensusVars>>
bulk_update_claim_status(ids, st) ==
  LET status == LOWER(st)
      hit == {c \in Committed(claims) : c.claim_id \in ids} IN
  /\ status \in {"approved", "rejected"}
  /\ ids # {}
  /\ hit # {}
  /\ \A c \in hit : c.txn = 0
  /\ claims' = {IF c \in hit THEN [c EXCEPT !.status = status] ELSE c : c \in claims}
  /\ UNCHANGED <<paymentVars, docs, evals, seq, clock, pc, loc, consensusVars>>

\* POST /claims/bulk-verify-approve as it would be if it reopened the claims.
bulk_verify_reopen(ids) ==
  LET hit == {c \in Committed(claims) : c.claim_id \in ids} IN
  /\ ids # {}
  /\ hit # {}
  /\ \A c \in hit : c.txn = 0
  /\ claims' = {IF c \in hit THEN [c EXCEPT !.status = "pending"] ELSE c : c \in claims}
  /\ UNCHANGED <<paymentVars, docs, evals, seq, clock, pc, loc, consensusVars>>

\* POST /claims/bulk-verify-approve: UPDATE claims SET status = 'approved'
\* WHERE claim_id = ANY(ids); is_verified is left alone.
bulk_verify_approve(ids) ==
  LET hit == {c \in Committed(claims) : c.claim_id \in ids} IN
  /\ ids # {}
  /\ hit # {}
  /\ \A c \in hit : c.txn = 0
  /\ claims' = {IF c \in hit THEN [c EXCEPT !.status = "approved"] ELSE c : c \in claims}
  /\ UNCHANGED <<paymentVars, docs, evals, seq, clock, pc, loc, consensusVars>>

\* The test as it would be without lower().
IsAutoExact(bucket) == bucket = "auto"

\* e.bucket and str(e.bucket).lower() == 'auto'
IsAuto(bucket) == bucket # NULL /\ bucket # "" /\ LOWER(bucket) = "auto"

\* What the side effect's UPDATE writes into a matching row.
HalfApprove(c) == [c EXCEPT !.status = "approved"]
AutoApprove(c) == [c EXCEPT !.is_verified = TRUE, !.status = "approved"]

\* The request enters the loop.  NOW() is the time the transaction started:
\* every row of one request carries the same evaluated_at.
record_ai_evaluations_begin(p, evaluations, requests) ==
  /\ pc[p] = "idle"
  /\ clock <= requests
  /\ Len(evaluations) > 0
  /\ clock' = clock + 1
  /\ pc' = [pc EXCEPT ![p] = "rec_insert"]
  /\ loc' = [loc EXCEPT ![p] = [op |-> "record", evals |-> evaluations, i |-> 1,
                                now |-> clock]]
  /\ UNCHANGED <<paymentVars, claims, docs, evals, seq, consensusVars>>

\* Where the loop goes after the item at the head of loc[p].evals.
NextItem(p) ==
  /\ loc' = [loc EXCEPT ![p].evals = Tail(@), ![p].i = @ + 1]
  /\ pc' = [pc EXCEPT ![p] = IF Len(loc[p].evals) > 1 THEN "rec_insert" ELSE "rec_commit"]

\* INSERT INTO ai_claim_evaluations (...) VALUES (..., NOW()).
record_ai_evaluations_insert(p) ==
  LET e == Head(loc[p].evals) IN
  /\ pc[p] = "rec_insert"
  /\ evals' = evals \cup {[claim_id |-> e.claim_id, bucket |-> OrNone(e.bucket),
                           evaluated_at |-> loc[p].now, n |-> loc[p].i,
                           txn |-> p, fresh |-> TRUE]}
  /\ IF IsAuto(e.bucket)
       THEN /\ pc' = [pc EXCEPT ![p] = "rec_update"]
            /\ loc' = loc
       ELSE NextItem(p)
  /\ UNCHANGED <<paymentVars, claims, docs, seq, clock, consensusVars>>

\* UPDATE claims SET is_verified = TRUE, status = 'approved' WHERE claim_id = %s.
\* The row stays written by p, invisible to the others, until p commits.
record_ai_evaluations_update(p) ==
  LET e == Head(loc[p].evals)
      hit == {c \in Committed(claims) : c.claim_id = e.claim_id} IN
  /\ pc[p] = "rec_update"
  /\ \A c \in hit : ~LockedByOther(c, p)
  /\ claims' = {IF c \in hit THEN [c EXCEPT !.txn = p] ELSE c : c \in claims}
  /\ NextItem(p)
  /\ UNCHANGED <<paymentVars, docs, evals, seq, clock, consensusVars>>

\* A statement raises: the connection is closed without a commit and the
\* request answers 500.  Nothing of the batch is kept.
record_ai_evaluations_fail(p) ==
  /\ pc[p] \in {"rec_insert", "rec_update", "rec_commit"}
  /\ evals' = {e \in evals : e.txn # p}
  /\ claims' = {IF c.txn = p THEN [c EXCEPT !.txn = 0] ELSE c : c \in claims}
  /\ pc' = [pc EXCEPT ![p] = "idle"]
  /\ loc' = [loc EXCEPT ![p] = Idle]
  /\ UNCHANGED <<paymentVars, docs, seq, clock, consensusVars>>

\* conn.commit(): the rows and the flips of the whole batch become visible.
record_ai_evaluations_commit(p) ==
  /\ pc[p] = "rec_commit"
  /\ evals' = {IF e.txn = p THEN [e EXCEPT !.txn = 0, !.fresh = FALSE] ELSE e
               : e \in evals}
  /\ claims' = {IF c.txn = p THEN [AutoApprove(c) EXCEPT !.txn = 0] ELSE c
                : c \in claims}
  /\ pc' = [pc EXCEPT ![p] = "idle"]
  /\ loc' = [loc EXCEPT ![p] = Idle]
  /\ UNCHANGED <<paymentVars, docs, seq, clock, consensusVars>>

\* The claim ids a caller can name: those of claims it can read, and one
\* that no claim has.
KnownClaimIds == {c.claim_id : c \in Committed(claims)} \cup {MissingClaim}

BucketInputs == {"auto", "AUTO", "manual", ""}

Batches(ids, buckets, len) ==
  UNION {[1..n -> [claim_id : ids, bucket : buckets]] : n \in 0..len}

record_ai_evaluations(p, ids, buckets, len, requests) ==
  \/ \E evaluations \in Batches(ids, buckets, len) :
       record_ai_evaluations_begin(p, evaluations, requests)
  \/ record_ai_evaluations_insert(p)
  \/ record_ai_evaluations_update(p)
  \/ record_ai_evaluations_fail(p)
  \/ record_ai_evaluations_commit(p)


\* ------------------------------------------------------------ Queue Router
\* The listings are single SELECTs: they read the committed rows.  Each
\* operator is the set of claim_ids the listing returns over all its pages
\* when no search text is given.

\* POST /claims/ai-evaluations/query: SELECT DISTINCT ON (claim_id) ... WHERE
\* claim_id = ANY(ids) ORDER BY claim_id, evaluated_at DESC.  The results the
\* query can give: one row for each claim of ids that has a row, taken from
\* its rows with the largest evaluated_at.
fetch_ai_evaluations(ids) ==
  LET rows == Committed(evals)
      latest(id) == {e \in rows : /\ e.claim_id = id
                                  /\ \A e2 \in rows : e2.claim_id = id =>
                                        e2.evaluated_at <= e.evaluated_at}
      scored == {id \in ids : latest(id) # {}}
  IN {{pick[id] : id \in scored} :
        pick \in {f \in [scored -> rows] : \A id \in scored : f[id] \in latest(id)}}

\* latest_eval as it would be if DISTINCT ON kept every row of the claim.
EveryBucket(claim_id) ==
  {e.bucket : e \in {e \in Committed(evals) : e.claim_id = claim_id}}

\* latest_eval: SELECT DISTINCT ON (claim_id) claim_id, bucket ... ORDER BY
\* claim_id, evaluated_at DESC.  Among rows with the same evaluated_at the
\* database keeps any one, so this is the set of buckets it can come up with.
LatestBuckets(claim_id) ==
  LET rows == {e \in Committed(evals) : e.claim_id = claim_id}
      top == {e \in rows : \A e2 \in rows : e2.evaluated_at <= e.evaluated_at}
  IN {e.bucket : e \in top}

\* JOIN latest_eval le ... WHERE LOWER(le.bucket) = 'manual'
LatestIsManual(claim_id) == \E b \in LatestBuckets(claim_id) : LOWER(b) = "manual"

\* LEFT JOIN tasks t ON t.claim_id = c.claim_id
TasksOfClaim(claim_id) == {t \in tasks : t.claim_id = claim_id}

\* LEFT JOIN (SELECT DISTINCT claim_id FROM ai_claim_evaluations) ae
HasEvaluation(claim_id) == \E e \in Committed(evals) : e.claim_id = claim_id

\* GET /claims/unverified-external/by-insurance/{insurance_id}
UnverifiedExternalAnyScore(insurance_id) ==
  {c.claim_id : c \in {c \in Committed(claims) :
     /\ c.insurance_id = insurance_id
     /\ c.is_verified = FALSE
     /\ c.status = "pending"
     /\ TasksOfClaim(c.claim_id) = {}}}
UnverifiedExternal(insurance_id) ==
  {c.claim_id : c \in {c \in Committed(claims) :
     /\ c.insurance_id = insurance_id
     /\ c.is_verified = FALSE
     /\ c.status = "pending"
     /\ TasksOfClaim(c.claim_id) = {}
     /\ ~HasEvaluation(c.claim_id)}}

\* GET /claims/validate-documents/by-insurance/{insurance_id}
ValidateDocuments(insurance_id) ==
  {c.claim_id : c \in {c \in Committed(claims) :
     /\ c.insurance_id = insurance_id
     /\ c.is_verified = FALSE
     /\ c.status = "pending"
     /\ TasksOfClaim(c.claim_id) = {}
     /\ LatestIsManual(c.claim_id)}}

\* GET /claims/manual-review/by-insurance/{insurance_id}
ManualReview(insurance_id) ==
  {c.claim_id : c \in {c \in Committed(claims) :
     /\ c.insurance_id = insurance_id
     /\ c.is_verified = FALSE
     /\ c.issued_by = NoIssuer
     /\ c.status = "pending"
     /\ LatestIsManual(c.claim_id)}}

\* GET /claims/manual-review-without-task/by-insurance/{insurance_id}
ManualReviewAnyTask(insurance_id) ==
  {c.claim_id : c \in {c \in Committed(claims) :
     /\ c.insurance_id = insurance_id
     /\ c.is_verified = FALSE
     /\ c.status = "pending"
     /\ LatestIsManual(c.claim_id)}}
ManualReviewWithoutTask(insurance_id) ==
  {c.claim_id : c \in {c \in Committed(claims) :
     /\ c.insurance_id = insurance_id
     /\ c.is_verified = FALSE
     /\ c.status = "pending"
     /\ LatestIsManual(c.claim_id)
     /\ TasksOfClaim(c.claim_id) = {}}}

\* GET /verification-queue.  uid is the resolved validator (NoUser when the
\* request names none); a claim is listed once for each task row that passes.
VerificationQueue(insurance_id, uid, include_completed) ==
  {c.claim_id : c \in {c \in Committed(claims) :
     /\ c.insurance_id = insurance_id
     /\ c.is_verified = FALSE
     /\ c.status = "pending"
     /\ LatestIsManual(c.claim_id)
     /\ \E t \in TasksOfClaim(c.claim_id) :
          /\ include_completed \/ t.status = "pending"
          /\ uid = NoUser \/
               ~\E vs \in Committed(subs) :
                   vs.task_id = t.task_id /\ vs.validator_user_id = uid}}

\* uid of get_verification_queue: the explicit parameter, else the cookie,
\* else the user the wallet belongs to.  NoUser stands for a missing or
\* unreadable value, and for 0, which `if not uid` treats alike; wallet is
\* the wallet's user, or -1 for a wallet no user has.
QueueUser(validator_user_id, cookie, wallet) ==
  IF validator_user_id # NoUser THEN validator_user_id
  ELSE IF cookie # NoUser THEN cookie
  ELSE IF wallet > 0 THEN wallet
  ELSE NoUser

\* The task rows of GET /verification-queue: one result row for each pair of
\* a claim and a task of it that passes the WHERE clause.
VerificationQueueForAll(insurance_id, uid, include_completed) ==
  {t \in tasks :
     /\ \E c \in Committed(claims) :
          /\ c.claim_id = t.claim_id
          /\ c.insurance_id = insurance_id
          /\ c.is_verified = FALSE
          /\ c.status = "pending"
          /\ LatestIsManual(c.claim_id)
     /\ include_completed \/ t.status = "pending"}
VerificationQueueTasks(insurance_id, uid, include_completed) ==
  {t \in tasks :
     /\ \E c \in Committed(claims) :
          /\ c.claim_id = t.claim_id
          /\ c.insurance_id = insurance_id
          /\ c.is_verified = FALSE
          /\ c.status = "pending"
          /\ LatestIsManual(c.claim_id)
     /\ include_completed \/ t.status = "pending"
     /\ uid = NoUser \/
          ~\E vs \in Committed(subs) :
              vs.task_id = t.task_id /\ vs.validator_user_id = uid}

\* ------------------------------------------------------ the paged listings
\* A listing request runs a count query and a list query.  Each is the set of
\* answers it can give: where the latest evaluations of a claim tie, either
\* query keeps any one of them.

\* c.report_url ILIKE '%search%' on the strings the model holds.
ILIKE(report_url, search) ==
  CASE search = "RL" -> report_url = "url"
    [] search = "U" -> report_url \in {"url", "upload", "issued"}
    [] OTHER -> FALSE

\* `if search:` appends AND c.report_url ILIKE %s.
SearchClause(c, search) == search \in {NULL, ""} \/ ILIKE(c.report_url, search)

\* ORDER BY c.created_at DESC.  created_at is the NOW() of the INSERT that drew
\* the row's serial: the rows are ordered by the serial, newest first.
RECURSIVE NewestFirst(_)
NewestFirst(rows) ==
  IF rows = {} THEN <<>>
  ELSE LET c == CHOOSE c \in rows : \A d \in rows : d.claim_id <= c.claim_id
       IN <<c.claim_id>> \o NewestFirst(rows \ {c})

\* LIMIT %s OFFSET %s
LimitOffset(s, limit, offset) ==
  SubSeq(s, offset + 1, IF offset + limit < Len(s) THEN offset + limit ELSE Len(s))

\* latest_eval: for each claim that has an evaluation, the bucket of one of
\* its rows with the largest evaluated_at.
LatestEval ==
  LET scored == {e.claim_id : e \in Committed(evals)} IN
  {le \in [scored -> {e.bucket : e \in Committed(evals)}] :
     \A id \in scored : le[id] \in LatestBuckets(id)}

\* JOIN latest_eval le ON le.claim_id = c.claim_id
JoinLatest(c, le) == c.claim_id \in DOMAIN le

\* GET /claims/validate-documents/by-insurance/{insurance_id}
list_validate_documents_claims(insurance_id, page, page_size, search) ==
  LET rows(le) == {c \in Committed(claims) :
                     /\ JoinLatest(c, le)
                     /\ c.insurance_id = insurance_id
                     /\ c.is_verified = FALSE
                     /\ c.status = "pending"
                     /\ TasksOfClaim(c.claim_id) = {}
                     /\ LOWER(le[c.claim_id]) = "manual"
                     /\ SearchClause(c, search)}
  IN IF page < 1 \/ page_size < 1
     THEN {[code |-> 400, items |-> <<>>, total |-> 0]}
     ELSE {[code |-> 200,
            items |-> LimitOffset(NewestFirst(rows(le2)), page_size, (page - 1) * page_size),
            total |-> Cardinality(rows(le1))] : le1 \in LatestEval, le2 \in LatestEval}

\* The listing as it would be without the LEFT JOIN on tasks.
list_manual_review_any_task_claims(insurance_id, page, page_size, search) ==
  LET rows(le) == {c \in Committed(claims) :
                     /\ JoinLatest(c, le)
                     /\ c.insurance_id = insurance_id
                     /\ c.is_verified = FALSE
                     /\ c.status = "pending"
                     /\ LOWER(le[c.claim_id]) = "manual"
                     /\ SearchClause(c, search)}
  IN IF page < 1 \/ page_size < 1
     THEN {[code |-> 400, items |-> <<>>, total |-> 0]}
     ELSE {[code |-> 200,
            items |-> LimitOffset(NewestFirst(rows(le2)), page_size, (page - 1) * page_size),
            total |-> Cardinality(rows(le1))] : le1 \in LatestEval, le2 \in LatestEval}

\* GET /claims/manual-review-without-task/by-insurance/{insurance_id}
list_manual_review_without_task_claims(insurance_id, page, page_size, search) ==
  LET rows(le) == {c \in Committed(claims) :
                     /\ JoinLatest(c, le)
                     /\ c.insurance_id = insurance_id
                     /\ c.is_verified = FALSE
                     /\ c.status = "pending"
                     /\ LOWER(le[c.claim_id]) = "manual"
                     /\ TasksOfClaim(c.claim_id) = {}
                     /\ SearchClause(c, search)}
  IN IF page < 1 \/ page_size < 1
     THEN {[code |-> 400, items |-> <<>>, total |-> 0]}
     ELSE {[code |-> 200,
            items |-> LimitOffset(NewestFirst(rows(le2)), page_size, (page - 1) * page_size),
            total |-> Cardinality(rows(le1))] : le1 \in LatestEval, le2 \in LatestEval}

\* ---------------------------------------------------------- Payment Ledger
\* POST /payments.  execute_query opens a connection for each statement, runs
\* it, commits and closes: every INSERT of the loop is a transaction of its
\* own.  A row is the item with the request and the position it came from.

\* An INSERT the database refuses whenever it is run: 1e30 does not fit
\* amount_pol NUMERIC(36, 18).
Refused(item) == item.amount_pol = "1e30"

\* if not body.payments: 400.  Otherwise the loop starts with inserted = 0.
record_payments_begin(p, batch) ==
  /\ pc[p] = "idle"
  /\ payreqs < MaxPayRequests
  /\ Len(batch) > 0
  /\ payreqs' = payreqs + 1
  /\ pc' = [pc EXCEPT ![p] = "pay_insert"]
  /\ loc' = [loc EXCEPT ![p] = [op |-> "pay", payments |-> batch, req |-> payreqs + 1,
                                inserted |-> 0, code |-> 0]]
  /\ UNCHANGED <<payments, ledgerVars, consensusVars>>

\* The row of the item the loop is at.
PaymentRow(p) ==
  [item |-> loc[p].payments[loc[p].inserted + 1], req |-> loc[p].req,
   n |-> loc[p].inserted + 1]

\* An INSERT raised, and the loop goes on as if it had not.
record_payments_skip(p) ==
  /\ pc[p] = "pay_insert"
  /\ loc' = [loc EXCEPT ![p].inserted = @ + 1,
                        ![p].code = IF Len(loc[p].payments) = loc[p].inserted + 1
                                    THEN 200 ELSE 0]
  /\ pc' = [pc EXCEPT ![p] = IF Len(loc[p].payments) = loc[p].inserted + 1
                              THEN "pay_respond" ELSE "pay_insert"]
  /\ UNCHANGED <<payments, payreqs, ledgerVars, consensusVars>>

\* An INSERT raised (the database refused the row, or the connection or the
\* commit failed): execute_query rolled back, the loop ends with a 500
\* "insert failed".  The rows of the items before stay committed.
record_payments_fail(p) ==
  /\ pc[p] = "pay_insert"
  /\ loc' = [loc EXCEPT ![p].code = 500]
  /\ pc' = [pc EXCEPT ![p] = "pay_respond"]
  /\ UNCHANGED <<payments, payreqs, ledgerVars, consensusVars>>

\* The INSERT was committed and closing the connection raised: the row is
\* there and the loop ends with a 500 all the same.
record_payments_close_fail(p) ==
  /\ pc[p] = "pay_insert"
  /\ ~Refused(PaymentRow(p).item)
  /\ payments' = Append(payments, PaymentRow(p))
  /\ loc' = [loc EXCEPT ![p].code = 500]
  /\ pc' = [pc EXCEPT ![p] = "pay_respond"]
  /\ UNCHANGED <<payreqs, ledgerVars, consensusVars>>

\* INSERT INTO payments ... RETURNING id, committed; inserted += 1.  After the
\* last item: {"ok": True, "inserted": inserted}.
record_payments_insert(p) ==
  /\ pc[p] = "pay_insert"
  /\ ~Refused(PaymentRow(p).item)
  /\ payments' = Append(payments, PaymentRow(p))
  /\ loc' = [loc EXCEPT ![p].inserted = @ + 1,
                        ![p].code = IF Len(loc[p].payments) = loc[p].inserted + 1
                                    THEN 200 ELSE 0]
  /\ pc' = [pc EXCEPT ![p] = IF Len(loc[p].payments) = loc[p].inserted + 1
                              THEN "pay_respond" ELSE "pay_insert"]
  /\ UNCHANGED <<payreqs, ledgerVars, consensusVars>>

\* The response is sent.
record_payments_respond(p) ==
  /\ pc[p] = "pay_respond"
  /\ pc' = [pc EXCEPT ![p] = "idle"]
  /\ loc' = [loc EXCEPT ![p] = Idle]
  /\ UNCHANGED <<payments, payreqs, ledgerVars, consensusVars>>

PaymentItems == {[amount_pol |-> "1.5", tx_hash |-> "0xa"],
                 [amount_pol |-> "1e30", tx_hash |-> "0xb"]}

record_payments(p) ==
  \/ \E batch \in UNION {[1..n -> PaymentItems] : n \in 0..MaxPayBatch} :
       record_payments_begin(p, batch)
  \/ record_payments_insert(p)
  \/ record_payments_fail(p)
  \/ record_payments_close_fail(p)
  \/ record_payments_respond(p)

\* ---------------------------------------------------------- specifications

StatusInputs == {NULL, "pending", "Completed", "cancelled", "archived"}

CreateTask == \E t \in TaskIds, req \in RequiredInputs, st \in StatusInputs :
                save_task(t, MissingClaim, req, OnePol, st, NULL)

CreateTaskDefault == \E t \in TaskIds, req \in RequiredInputs :
                       save_task(t, MissingClaim, req, OnePol, NULL, NULL)

UpdateTaskStatus == \E t \in TaskIds, st \in {"PENDING", "completed", "cancelled", "archived"} :
                      update_task_status(t, st, NULL)

SubmitValidation == \E p \in Procs : create_validator_submission(p, TaskIds, {"cid"}, {NULL})

\* Tasks created with the default status, and validator submissions only.
NextQuorum == CreateTaskDefault \/ SubmitValidation
SpecQuorum == Init /\ [][NextQuorum]_vars

\* Tasks created with any status the caller sends, and validator submissions.
NextEscalated == CreateTask \/ SubmitValidation
SpecEscalated == Init /\ [][NextEscalated]_vars

\* The task registry and the consensus aggregator together.
NextConsensus == CreateTask \/ UpdateTaskStatus \/ SubmitValidation
SpecConsensus == Init /\ [][NextConsensus]_vars

\* The claim ledger with issued documents.
IssueReport == \E patient_id \in Patients, issuer_id \in Issuers :
                 issue_report(patient_id, issuer_id)
CreateClaim == \E p \in Procs : create_claim(p)
NextLedger == IssueReport \/ CreateClaim
SpecLedger == Init /\ [][NextLedger]_vars

\* The evaluator's sink next to claim creation and manual status changes.
\* Claims come in without an issued document, so no document is consumed.
SubmitClaim ==
  \E p \in Procs :
    \/ \E is_verified \in BOOLEAN, issued_by \in {NoIssuer} \cup Issuers,
          report_url \in {NULL, "url"} :
         create_claim_begin(p, 1, 1, is_verified, issued_by, NoDoc, report_url,
                            NULL, TRUE)
    \/ create_claim_insert(p)
    \/ create_claim_rollback(p)
    \/ create_claim_commit(p)
RecordEvaluations ==
  \E p \in Procs :
    record_ai_evaluations(p, KnownClaimIds, BucketInputs, MaxBatch, EvaluatorRequests)
UpdateClaimStatus == \E claim_id \in KnownClaimIds, st \in {"approved", "Rejected", "pending"} :
                       update_claim_status(claim_id, st)
NextEvaluator == SubmitClaim \/ RecordEvaluations \/ UpdateClaimStatus
SpecEvaluator == Init /\ [][NextEvaluator]_vars

\* Triage: claims are submitted, scored, escalated to a task and decided.
\* The multi-statement requests are served one at a time here.
Alone(p) == \A q \in Procs \ {p} : pc[q] = "idle"
TriageClaim ==
  \E p \in Procs :
    /\ Alone(p)
    /\ \/ \E insurance_id \in Insurances, is_verified \in BOOLEAN,
             issued_by \in {NoIssuer} \cup Issuers :
            create_claim_begin(p, 1, insurance_id, is_verified, issued_by, NoDoc,
                               "url", NULL, TRUE)
       \/ create_claim_insert(p)
       \/ create_claim_rollback(p)
       \/ create_claim_commit(p)
TriageEvaluations ==
  \E p \in Procs :
    /\ Alone(p)
    /\ record_ai_evaluations(p, KnownClaimIds \ {MissingClaim}, {"manual", "Manual", ""},
                          TriageBatch, MaxEvalRequests)
EscalateClaim == \E t \in TaskIds, c \in KnownClaimIds, st \in {NULL, "pending", "completed"} :
                   save_task(t, c, MaxRequired, OnePol, st, NULL)
BulkSetVerified == \E ids \in SUBSET KnownClaimIds : bulk_set_verified(ids)
NextTriage == TriageClaim \/ TriageEvaluations \/ EscalateClaim \/ UpdateClaimStatus
                \/ BulkSetVerified
SpecTriage == Init /\ [][NextTriage]_vars

\* Every writer of the claims table.
BulkUpdateClaimStatus == \E ids \in SUBSET KnownClaimIds, st \in {"Approved", "rejected", "pending"} :
                           bulk_update_claim_status(ids, st)
BulkVerifyApprove == \E ids \in SUBSET KnownClaimIds : bulk_verify_approve(ids)
StoreEvaluations ==
  \E p \in Procs :
    record_ai_evaluations(p, KnownClaimIds, {"auto"}, TriageBatch, EvaluatorRequests)
StoreClaim ==
  \E p \in Procs :
    \/ \E patient_id \in Patients, is_verified \in BOOLEAN,
          issued_by \in {NoIssuer} \cup Issuers, issued_doc_id \in {NoDoc} \cup 1..(MaxDocs + 1),
          report_url \in {NULL, "url"} :
         create_claim_begin(p, patient_id, 1, is_verified, issued_by, issued_doc_id,
                            report_url, NULL, TRUE)
    \/ create_claim_insert(p)
    \/ create_claim_lock(p)
    \/ create_claim_rollback(p)
    \/ create_claim_commit(p)
NextClaimStore == IssueReport \/ StoreClaim \/ UpdateClaimStatus \/ BulkUpdateClaimStatus
                    \/ BulkSetVerified \/ BulkVerifyApprove \/ StoreEvaluations
SpecClaimStore == Init /\ [][NextClaimStore]_vars

\* The bulk operations on uploaded (unverified) claims.
UploadClaim ==
  \E p \in Procs :
    \/ \E patient_id \in Patients, insurance_id \in Insurances,
          issued_by \in {NoIssuer} \cup Issuers, file \in {NULL, "file"}, upload_ok \in BOOLEAN :
         create_claim_begin(p, patient_id, insurance_id, FALSE, issued_by, NoDoc,
                            NULL, file, upload_ok)
    \/ create_claim_insert(p)
    \/ create_claim_rollback(p)
    \/ create_claim_commit(p)
NextBulk == UploadClaim \/ BulkUpdateClaimStatus \/ BulkSetVerified \/ BulkVerifyApprove
SpecBulk == Init /\ [][NextBulk]_vars

\* Re-scoring: uploads are scored, in batches, more than once, and escalated.
RescoreClaim ==
  \E p \in Procs :
    /\ Alone(p)
    /\ \/ \E issued_by \in Issuers :
            create_claim_begin(p, 1, 1, FALSE, issued_by, NoDoc, "url", NULL, TRUE)
       \/ create_claim_insert(p)
       \/ create_claim_rollback(p)
       \/ create_claim_commit(p)
RescoreEvaluations ==
  \E p \in Procs :
    /\ Alone(p)
    /\ record_ai_evaluations(p, KnownClaimIds \ {MissingClaim}, {"Manual", "reject"},
                             MaxBatch, MaxEvalRequests)
EscalatePending == \E t \in TaskIds, c \in KnownClaimIds \ {MissingClaim} :
                     save_task(t, c, MaxRequired, OnePol, NULL, NULL)
NextRescore == RescoreClaim \/ RescoreEvaluations \/ EscalatePending
SpecRescore == Init /\ [][NextRescore]_vars

\* Validators work on the task of a claim that was scored manual.
QueueClaim ==
  \E p \in Procs :
    /\ Alone(p)
    /\ \/ \E issued_by \in Issuers :
            create_claim_begin(p, 1, 1, FALSE, issued_by, NoDoc, "url", NULL, TRUE)
       \/ create_claim_insert(p)
       \/ create_claim_rollback(p)
       \/ create_claim_commit(p)
QueueEvaluations ==
  \E p \in Procs :
    /\ Alone(p)
    /\ record_ai_evaluations(p, KnownClaimIds \ {MissingClaim}, {"manual"},
                             TriageBatch, EvaluatorRequests)
NextQueue == QueueClaim \/ QueueEvaluations \/ EscalatePending \/ SubmitValidation
SpecQueue == Init /\ [][NextQueue]_vars

\* The task registry alone: tasks are stored with every field the caller
\* sends, and their status and hash are updated.
RewardInputs ==
  {Dec(FALSE, 12399, -4), Dec(TRUE, 12399, -4), Dec(FALSE, 12, -1), Dec(FALSE, 1, 2),
   Dec(TRUE, 4, -4), Dec(FALSE, 1, 25), Blank, NotANumber}
HashInputs == {NULL, "", "0xa", "0xb"}
RegisterTask ==
  \E t \in TaskIds, req \in RequiredInputs, reward_pol \in RewardInputs,
     st \in StatusInputs, tx_hash \in HashInputs :
    save_task(t, MissingClaim, req, reward_pol, st, tx_hash)
SetTaskStatus ==
  \E t \in 1..(NumTasks + 1), st \in {"PENDING", "Completed", "cancelled", "archived", ""},
     tx_hash \in HashInputs :
    update_task_status(t, st, tx_hash)
NextRegistry == RegisterTask \/ SetTaskStatus
SpecRegistry == Init /\ [][NextRegistry]_vars

\* Validators submit, and submit again with another result, for the tasks they
\* name, one of which does not exist.
RegisterQuorumTask == \E t \in TaskIds : save_task(t, MissingClaim, MaxRequired, OnePol, NULL, NULL)
Resubmit ==
  \E p \in Procs :
    \/ \E t \in 1..(NumTasks + 1), user_id \in {NoUser} \cup 1..MaxRequired,
          result_cid \in {"cid1", "cid2"}, tx_hash \in {"", "0xa"} :
         create_validator_submission_begin(p, t, user_id, result_cid, tx_hash)
    \/ create_validator_submission_upsert(p)
    \/ create_validator_submission_count(p)
    \/ create_validator_submission_complete(p)
    \/ create_validator_submission_commit(p)
NextSubmissions == RegisterQuorumTask \/ Resubmit
SpecSubmissions == Init /\ [][NextSubmissions]_vars

\* The payment ledger.
RecordPayments == \E p \in Procs : record_payments(p)
NextPayments == RecordPayments
SpecPayments == Init /\ [][NextPayments]_vars

\* ------------------------------------------------------------------ claims

InFlight(p, t) == pc[p] # "idle" /\ loc[p].op = "submit" /\ loc[p].task_id = t

\* C1: a validator who submits twice for a task is counted once for it, and the
\* quorum update changes a task row only when the distinct validators with a
\* submission for the task have reached the task's required_validators.
QuorumIdempotence ==
  /\ \A t \in TaskIds, v \in Validators :
        Cardinality({r \in subs : r.task_id = t /\ r.validator_user_id = v}) <= 1
  /\ \A p \in Procs :
        pc[p] \in {"sub_count", "sub_complete", "sub_commit"} =>
          Cardinality({r \in VisibleSubs(p) : r.task_id = loc[p].task_id
                                             /\ r.validator_user_id = loc[p].user_id}) = 1
  /\ \A p \in Procs :
        pc[p] \in {"sub_complete", "sub_commit"} =>
          loc[p].count <= Cardinality(DistinctValidators(loc[p].task_id))
  /\ \A r \in tasks :
        r.txn # 0 =>
          Cardinality({x.validator_user_id :
                         x \in {y \in VisibleSubs(r.txn) : y.task_id = r.task_id}})
            >= r.required_validators

\* C1 witness: a resubmission went through the conflict branch, the count it
\* read is still 1 and the task, which needs two validators, was left alone.
ResubmissionCountedOnce ==
  \E p \in Procs :
    /\ pc[p] = "sub_commit"
    /\ loc[p].conflict
    /\ loc[p].count = 1
    /\ loc[p].required_validators = 2
    /\ ~loc[p].task_completed

\* C2: however the submissions that reach quorum interleave, the quorum update
\* changes the task row for exactly one of them and for none of the others.
ExactlyOnceCompletion ==
  /\ \A t \in TaskIds : flips[t] <= 1
  /\ \A p \in Procs :
        pc[p] = "sub_commit" =>
          /\ loc[p].rows \in {0, 1}
          /\ loc[p].task_completed => flips[loc[p].task_id] = 1
  /\ \A p, q \in Procs :
        (p # q /\ pc[p] = "sub_commit" /\ pc[q] = "sub_commit"
           /\ loc[p].task_id = loc[q].task_id) => loc[p].rows + loc[q].rows <= 1

\* C2 witness: one submission has flipped the row and not yet committed while
\* another one, which also counted a quorum, is about to run the same update.
QuorumRace ==
  \E p, q \in Procs :
    /\ p # q
    /\ pc[p] = "sub_commit" /\ loc[p].rows = 1
    /\ pc[q] = "sub_complete" /\ loc[q].task_id = loc[p].task_id
    /\ loc[q].count >= loc[q].required_validators

\* C3: task_completed is returned true only by the call whose update changed
\* the task row.
TaskCompletedOnlyForFlipper ==
  \A p \in Procs :
    pc[p] = "sub_commit" => (loc[p].task_completed <=> loc[p].rows = 1)

\* C4: once every submission transaction of a task has committed, a task with
\* at least required_validators committed validators is completed.
QuorumRaceFree ==
  \A r \in tasks :
    ( /\ \A p \in Procs : ~InFlight(p, r.task_id)
      /\ CommittedValidators(r.task_id) # {}
      /\ Cardinality(CommittedValidators(r.task_id)) >= r.required_validators )
    => r.status = "completed"

\* C5: no step changes the status of a completed task (one that needs at least
\* one validator).
CompletedIsTerminal ==
  [][\A r \in tasks : (r.status = "completed" /\ r.required_validators >= 1) =>
        \E r2 \in tasks' : r2.task_id = r.task_id /\ r2.status = "completed"]_vars

\* C6: no step changes the status of a cancelled task (one that needs at least
\* one validator).
CancelledIsTerminal ==
  [][\A r \in tasks : (r.status = "cancelled" /\ r.required_validators >= 1) =>
        \E r2 \in tasks' : r2.task_id = r.task_id /\ r2.status = "cancelled"]_vars


\* C7: at most one committed claim went on with any given issued document.
IssuedDocSingleUse ==
  \A id \in DocIds :
    Cardinality({c \in Committed(claims) : c.issued_doc_id = id}) <= 1


\* C8: a step that makes an evaluation whose bucket is auto visible to other
\* requests leaves its claim committed with is_verified and status = approved,
\* and a claim written by a recording request becomes visible either
\* untouched or with both columns set.
AutoBucketAtomicity ==
  [][/\ \A e \in Committed(evals') \ Committed(evals) :
          (IsAuto(e.bucket) /\ e.claim_id # MissingClaim) =>
             /\ \E c \in Committed(claims') : c.claim_id = e.claim_id
             /\ \A c \in claims' : c.claim_id = e.claim_id =>
                  (~c.fresh /\ c.txn = 0 /\ c.is_verified /\ c.status = "approved")
     /\ \A p \in Procs : \A c \in claims :
          (c.txn = p /\ pc[p] # "idle" /\ loc[p].op = "record") =>
             \A c2 \in claims' : c2.claim_id = c.claim_id =>
                \/ c2 = c
                \/ c2 = [c EXCEPT !.txn = 0]
                \/ c2 = [c EXCEPT !.txn = 0, !.is_verified = TRUE, !.status = "approved"]
   ]_vars

\* C8 witness: a batch of two items was committed whose second item has the
\* bucket AUTO, for a claim that was submitted unverified.
AutoBatchCommitted ==
  \E e \in Committed(evals) : \E c \in Committed(claims) :
    /\ e.n = 2 /\ e.bucket = "AUTO" /\ c.claim_id = e.claim_id
    /\ c.is_verified /\ c.status = "approved" /\ c.issued_doc_id = NoDoc
    /\ \E e1 \in Committed(evals) :
         e1.n = 1 /\ e1.evaluated_at = e.evaluated_at /\ e1.bucket = "manual"


\* The callers a verification-queue request can resolve to.
QueueUsers == {NoUser} \cup Validators

\* How many of the given sets hold the claim id.
Holding(id, queues) == Cardinality({i \in DOMAIN queues : id \in queues[i]})

VerifiedHasIssuer ==
  \A c \in claims : c.is_verified => c.issued_by # NoIssuer

\* C11 witness: a verified claim created from an issued document next to a
\* verified claim without one whose status was set to rejected.
VerifiedBothWays ==
  \E c \in Committed(claims), c2 \in Committed(claims) :
    /\ c.is_verified /\ c.issued_doc_id # NoDoc
    /\ c2.is_verified /\ c2.issued_doc_id = NoDoc /\ c2.status = "rejected"


\* The request of p went on with an issued document and is past its INSERT.
Consuming(p) ==
  pc[p] \in {"cc_lock", "cc_commit"} /\ loc[p].used_issued_doc_id # NoDoc

\* C12: when a create_claim that went on with an issued document ends, either
\* its claim row is committed and the document is inactive, or no row of it
\* is left and the document row is as the request found it; and every
\* committed claim made from a document has that document inactive.
ConsumeAllOrNothing ==
  [][/\ \A p \in Procs : (Consuming(p) /\ pc'[p] = "idle") =>
          LET mine == {c \in claims' : c.claim_id = loc[p].claim_id}
              before == {d \in docs : d.id = loc[p].used_issued_doc_id}
              after == {d \in docs' : d.id = loc[p].used_issued_doc_id}
          IN \/ /\ mine # {} /\ mine \subseteq Committed(claims')
                /\ after # {} /\ \A d \in after : ~d.is_active
             \/ /\ mine = {}
                /\ {[d EXCEPT !.txn = 0] : d \in after}
                     = {[d EXCEPT !.txn = 0] : d \in before}
                /\ \A d \in after : d.txn # p
     /\ \A c \in Committed(claims') : c.issued_doc_id # NoDoc =>
          \E d \in docs' : d.id = c.issued_doc_id /\ ~d.is_active
   ]_vars

\* C12 witness: after an earlier attempt was rolled back, a request has
\* inserted its claim and consumed the document, and is about to commit.
ConsumedAfterRollback ==
  \E p \in Procs :
    /\ pc[p] = "cc_commit" /\ loc[p].used_issued_doc_id # NoDoc /\ loc[p].rows = 1
    /\ loc[p].claim_id = 2
    /\ \A c \in claims : c.claim_id = 2


\* C13: a create_claim request that references a document an earlier,
\* committed claim was made from is rejected, whatever else it sends.
ConsumedDocumentRejected ==
  \A c \in Committed(claims) : c.issued_doc_id # NoDoc =>
    \A patient_id \in Patients, is_verified \in BOOLEAN,
       issued_by \in {NoIssuer} \cup Issuers, report_url \in {NULL, "", "url"},
       file \in {NULL, "file"}, upload_ok \in BOOLEAN :
      CreateClaimCheck(patient_id, is_verified, issued_by, c.issued_doc_id,
                       report_url, file, upload_ok).code # 200


\* C14: a claim row appears with status pending; a step keeps every
\* committed claim, with its patient_id, insurance_id, report_url and
\* issued_by (and the document it was made from) as they were.
ClaimLifecycleFrame ==
  [][/\ \A c \in claims' :
          (\A c0 \in claims : c0.claim_id # c.claim_id) => c.status = "pending"
     /\ \A c \in Committed(claims') \ Committed(claims) :
          (\A c0 \in Committed(claims) : c0.claim_id # c.claim_id) => c.status = "pending"
     /\ \A c \in Committed(claims) :
          \E c2 \in Committed(claims') :
            /\ c2.claim_id = c.claim_id
            /\ [c2 EXCEPT !.status = c.status, !.is_verified = c.is_verified,
                          !.txn = c.txn] = c
     /\ Cardinality({c.claim_id : c \in claims'}) = Cardinality(claims')
   ]_vars

\* C14 witness: a committed claim whose status and is_verified are no longer
\* those it was created with: it was scored auto after it was uploaded.
ClaimMutatedTwice ==
  \E c \in Committed(claims) : \E e \in Committed(evals) :
    /\ e.claim_id = c.claim_id /\ IsAuto(e.bucket)
    /\ c.is_verified /\ c.status = "approved" /\ c.txn = 0
    /\ \E c2 \in Committed(claims) : c2.claim_id # c.claim_id /\ c2.status = "rejected"


\* The claim ids and the status texts a caller may send.
AnyClaimId == 0..(MaxClaims + 1)
AnyClaimStatus == {"approved", "Approved", "rejected", "Rejected", "pending", ""}

\* C15: update_claim_status with a target that is approved or rejected (in any
\* letter case) sets the status of the claim with that id to the target,
\* whatever it was, and changes nothing else; for another target, or an id no
\* committed claim has, the request changes nothing.
SetStatusEffect ==
  [][\A claim_id \in AnyClaimId, st \in AnyClaimStatus :
       /\ update_claim_status(claim_id, st) =>
            /\ LOWER(st) \in {"approved", "rejected"}
            /\ \E c \in Committed(claims) :
                 /\ c.claim_id = claim_id
                 /\ claims' = (claims \ {c}) \cup {[c EXCEPT !.status = LOWER(st)]}
            /\ UNCHANGED <<paymentVars, docs, evals, seq, clock, pc, loc, consensusVars>>
       /\ (LOWER(st) \notin {"approved", "rejected"}
             \/ \A c \in Committed(claims) : c.claim_id # claim_id)
            => ~ENABLED update_claim_status(claim_id, st)
       /\ (/\ LOWER(st) \in {"approved", "rejected"}
           /\ \E c \in Committed(claims) : c.claim_id = claim_id /\ c.txn = 0)
            => ENABLED update_claim_status(claim_id, st)
   ]_vars

\* C15 witness: a claim that an auto evaluation had approved was set to
\* rejected; it is still verified.
ApprovedThenRejected ==
  \E c \in Committed(claims) : \E e \in Committed(evals) :
    /\ e.claim_id = c.claim_id /\ IsAuto(e.bucket)
    /\ c.is_verified /\ c.status = "rejected"


\* The claim_ids lists a caller may send, as sets.
AnyClaimIds == SUBSET AnyClaimId

\* C16: bulk_update_claim_status sets the status to the target on the
\* committed claims whose id is in claim_ids and on no other row, and lists
\* exactly their ids as updated; it changes nothing for an empty list, for a
\* target other than approved / rejected, and when no id of the list exists.
BulkSetStatusEffect ==
  [][\A ids \in AnyClaimIds, st \in AnyClaimStatus :
       LET existing == {c \in Committed(claims) : c.claim_id \in ids} IN
       /\ bulk_update_claim_status(ids, st) =>
            /\ ids # {} /\ LOWER(st) \in {"approved", "rejected"}
            /\ existing # {}
            /\ claims' = (claims \ existing)
                           \cup {[c EXCEPT !.status = LOWER(st)] : c \in existing}
            /\ Updated(ids) = {c.claim_id : c \in existing}
            /\ Updated(ids)' = Updated(ids)
            /\ UNCHANGED <<paymentVars, docs, evals, seq, clock, pc, loc, consensusVars>>
       /\ (ids = {} \/ LOWER(st) \notin {"approved", "rejected"} \/ existing = {})
            => ~ENABLED bulk_update_claim_status(ids, st)
       /\ (/\ LOWER(st) \in {"approved", "rejected"}
           /\ existing # {} /\ \A c \in existing : c.txn = 0)
            => ENABLED bulk_update_claim_status(ids, st)
   ]_vars

\* C16 witness: of two committed uploads one was rejected by a bulk request
\* and the other one is still pending.
BulkRejectedOne ==
  \E c \in Committed(claims), c2 \in Committed(claims) :
    c.status = "rejected" /\ c2.status = "pending" /\ ~c.is_verified

\* C17: bulk_set_verified sets is_verified on the committed claims whose id
\* is in claim_ids, changes no status and no other row, and changes nothing
\* when no id of the list exists.
BulkSetVerifiedEffect ==
  [][\A ids \in AnyClaimIds :
       LET existing == {c \in Committed(claims) : c.claim_id \in ids} IN
       /\ bulk_set_verified(ids) =>
            /\ existing # {}
            /\ claims' = (claims \ existing)
                           \cup {[c EXCEPT !.is_verified = TRUE] : c \in existing}
            /\ \A c \in claims : \E c2 \in claims' :
                 c2.claim_id = c.claim_id /\ c2.status = c.status
            /\ UNCHANGED <<paymentVars, docs, evals, seq, clock, pc, loc, consensusVars>>
       /\ existing = {} => ~ENABLED bulk_set_verified(ids)
       /\ (existing # {} /\ \A c \in existing : c.txn = 0)
            => ENABLED bulk_set_verified(ids)
   ]_vars

\* C17 witness: an upload was verified by the bulk request while its status
\* stayed pending, and another one after it had been rejected.
BulkVerifiedKeepsStatus ==
  \E c \in Committed(claims), c2 \in Committed(claims) :
    /\ c.is_verified /\ c.status = "pending"
    /\ c2.is_verified /\ c2.status = "rejected"


\* The rows of a claim with the largest evaluated_at.
MostRecent(claim_id) ==
  {e \in Committed(evals) :
     /\ e.claim_id = claim_id
     /\ \A e2 \in Committed(evals) :
          e2.claim_id = claim_id => e2.evaluated_at <= e.evaluated_at}

\* The listings that route on the latest bucket, for every caller.
ManualListings(ins) ==
  ManualReview(ins) \cup ManualReviewWithoutTask(ins) \cup ValidateDocuments(ins)
    \cup UNION {VerificationQueue(ins, uid, inc) : uid \in QueueUsers, inc \in BOOLEAN}

\* C18: every result of the latest-evaluations query holds, for each
\* requested claim that has an evaluation, exactly one row, one with the
\* largest evaluated_at, and no row for the others; a claim whose most
\* recent evaluations are all other than manual is in no listing that routes
\* on manual, whatever its earlier evaluations were; an unverified pending
\* claim whose most recent evaluations are all manual is in
\* manual-review-without-task and validate-documents while it has no task, and
\* in the verification queue once it has one.
LatestIsAuthoritative ==
  /\ \A ids \in AnyClaimIds : \A result \in fetch_ai_evaluations(ids) :
       /\ \A id \in ids :
            Cardinality({e \in result : e.claim_id = id}) =
              IF MostRecent(id) = {} THEN 0 ELSE 1
       /\ \A e \in result : e.claim_id \in ids /\ e \in MostRecent(e.claim_id)
  /\ \A ids \in AnyClaimIds : fetch_ai_evaluations(ids) # {}
  /\ \A c \in Committed(claims) : \A ins \in Insurances :
       /\ (\A e \in MostRecent(c.claim_id) : LOWER(e.bucket) # "manual")
            => c.claim_id \notin ManualListings(ins)
       /\ (/\ MostRecent(c.claim_id) # {}
           /\ \A e \in MostRecent(c.claim_id) : LOWER(e.bucket) = "manual"
           /\ ~c.is_verified /\ c.status = "pending")
            => IF TasksOfClaim(c.claim_id) = {}
                 THEN c.claim_id \in ManualReviewWithoutTask(c.insurance_id)
                                       \cap ValidateDocuments(c.insurance_id)
                 ELSE c.claim_id \in VerificationQueue(c.insurance_id, NoUser, TRUE)

\* C18 witness: one claim was scored manual and later something else, and is
\* in no manual listing; another was scored something else and later manual,
\* and is listed.
RescoredBothWays ==
  \E c \in Committed(claims), c2 \in Committed(claims) :
    /\ \E e \in Committed(evals) \ MostRecent(c.claim_id) :
         e.claim_id = c.claim_id /\ LOWER(e.bucket) = "manual"
    /\ \A e \in MostRecent(c.claim_id) : e.bucket = "reject"
    /\ \A ins \in Insurances : c.claim_id \notin ManualListings(ins)
    /\ \E e \in Committed(evals) \ MostRecent(c2.claim_id) :
         e.claim_id = c2.claim_id /\ e.bucket = "reject"
    /\ \A e \in MostRecent(c2.claim_id) : LOWER(e.bucket) = "manual"
    /\ c2.claim_id \in ManualListings(c2.insurance_id)


\* C19: for a request that resolves to a validator, the verification queue
\* holds no task that validator has a committed submission for; without
\* include_completed it holds only tasks whose status is pending; and it
\* holds nothing but tasks of the insurance's unverified pending claims.
QueueFiltering ==
  \A ins \in Insurances, include_completed \in BOOLEAN :
    \A validator_user_id \in QueueUsers, cookie \in QueueUsers,
       wallet \in {-1} \cup QueueUsers :
      LET uid == QueueUser(validator_user_id, cookie, wallet) IN
      \A t \in VerificationQueueTasks(ins, uid, include_completed) :
        /\ uid # NoUser =>
             ~\E vs \in Committed(subs) :
                 vs.task_id = t.task_id /\ vs.validator_user_id = uid
        /\ ~include_completed => t.status = "pending"
        /\ t.claim_id \in VerificationQueue(ins, uid, include_completed)

\* C19 witness: quorum completed the task of a claim: the default queue does
\* not show it any more; with include_completed it is shown to the validator
\* who has not submitted and hidden from the two who have.
CompletedTaskFiltered ==
  \E t \in tasks : \E v \in Validators :
    /\ t.status = "completed" /\ t.txn = 0
    /\ \A uid \in QueueUsers : t \notin VerificationQueueTasks(1, uid, FALSE)
    /\ t \in VerificationQueueTasks(1, NoUser, TRUE)
    /\ t \in VerificationQueueTasks(1, QueueUser(NoUser, v, -1), TRUE)
    /\ \A v2 \in Validators \ {v} :
         t \notin VerificationQueueTasks(1, QueueUser(v2, v, v), TRUE)


\* C20: every task row has required_validators >= 1.
RequiredValidatorsPositive ==
  \A t \in tasks : t.required_validators >= 1

\* C21: the status of every task row is one of pending, completed, cancelled.
TaskStatusDomain ==
  \A t \in tasks : t.status \in {"pending", "completed", "cancelled"}

\* C22: update_task_status with a status that is pending, completed or
\* cancelled (in any letter case) and the task_id of a task sets the status of
\* that task, sets its tx_hash to the one given or leaves it when none (or an
\* empty one) is given, and changes nothing else; for another status, or a
\* task_id no task has, the request changes nothing.
UpdateTaskStatusEffect ==
  [][\A t \in 1..(NumTasks + 1), st \in {"PENDING", "Completed", "cancelled", "archived", ""},
        tx_hash \in HashInputs :
       /\ update_task_status(t, st, tx_hash) =>
            /\ LOWER(st) \in {"pending", "completed", "cancelled"}
            /\ \E r \in tasks :
                 /\ r.task_id = t
                 /\ tasks' = (tasks \ {r}) \cup
                      {[r EXCEPT !.status = LOWER(st),
                                 !.tx_hash = IF tx_hash \in {NULL, ""} THEN r.tx_hash
                                             ELSE tx_hash]}
            /\ UNCHANGED <<paymentVars, subs, pc, loc, flips, ledgerVars>>
       /\ (LOWER(st) \notin {"pending", "completed", "cancelled"}
             \/ \A r \in tasks : r.task_id # t)
            => ~ENABLED update_task_status(t, st, tx_hash)
       /\ (/\ LOWER(st) \in {"pending", "completed", "cancelled"}
           /\ updates < MaxStatusUpdates
           /\ \E r \in tasks : r.task_id = t /\ r.txn = 0)
            => ENABLED update_task_status(t, st, tx_hash)
   ]_vars

\* C22 witness: a task stored with one hash was cancelled with another hash,
\* and a later update without a hash left the second hash in place.
HashKeptThenOverwritten ==
  \E r \in tasks :
    /\ updates = MaxStatusUpdates
    /\ r.tx_hash = "0xb"
    /\ r.status = "cancelled"

\* k thousandths are the decimal number d cut after its third decimal: the
\* multiple of 0.001 nearest to d among those between zero and d.
Abs(k) == IF k < 0 THEN 0 - k ELSE k
IsTruncationOf(k, d) ==
  /\ k # 0 => (k < 0) = d.neg
  /\ IF d.exp >= -3
     THEN Abs(k) = d.coeff * Pow10(d.exp + 3)
     ELSE /\ Abs(k) * Pow10(-3 - d.exp) <= d.coeff
          /\ d.coeff < (Abs(k) + 1) * Pow10(-3 - d.exp)

\* C26: save_task stores, for every reward given as a decimal string, the
\* reward cut after its third decimal (truncated toward zero).
RewardTruncated ==
  [][\A t \in TaskIds, req \in RequiredInputs, st \in StatusInputs, tx_hash \in HashInputs :
       \A reward_pol \in {r \in RewardInputs : IsDec(r)} :
         save_task(t, MissingClaim, req, reward_pol, st, tx_hash) =>
           \E r \in tasks' :
             /\ r.task_id = t
             /\ ~r.reward_pol.null
             /\ IsTruncationOf(r.reward_pol.thousandths, reward_pol)
   ]_vars

\* C23: there is at most one validator_submissions row for a task and a
\* validator, and a resubmission leaves the row of its task and validator
\* with the result_cid, the tx_hash and the status it sent.
ResubmissionOverwrites ==
  [][\A p \in Procs :
       create_validator_submission_commit(p) =>
         /\ \A r1, r2 \in subs' :
              (r1.task_id = r2.task_id /\ r1.validator_user_id = r2.validator_user_id)
                => r1 = r2
         /\ \E r \in subs' :
              /\ r.task_id = loc[p].task_id
              /\ r.validator_user_id = loc[p].user_id
              /\ r.result_cid = loc[p].result_cid
              /\ r.tx_hash = loc[p].tx_hash
              /\ r.status = "submitted"
   ]_vars

\* C24: a submission for a task_id that no task has answers 404, one whose
\* validator cannot be resolved answers 400 or 404, and either leaves every
\* table as it was: no submission row is written and no task is changed, then
\* or later, for a request that did not pass the two checks.
RejectedSubmissionLeavesNoTrace ==
  [][/\ \A t \in 1..(NumTasks + 1), cookie \in {NoUser} \cup Validators,
          explicit \in {NoUser} \cup Validators, wallet \in {-1, NoUser} \cup Validators :
        LET user_id == ResolveUser(cookie, explicit, wallet)
            code == SubmissionCheck(t, cookie, explicit, wallet) IN
        /\ (user_id # NoUser /\ TasksById(t) = {}) => code = 404
        /\ user_id = NoUser => code \in {400, 404}
        /\ (user_id # NoUser /\ TasksById(t) # {}) => code = 200
     /\ \A p \in Procs, t \in 1..(NumTasks + 1), user_id \in {NoUser} \cup 1..MaxRequired,
          result_cid \in {"cid1", "cid2"}, tx_hash \in {"", "0xa"} :
        create_validator_submission_begin(p, t, user_id, result_cid, tx_hash) =>
          /\ (user_id = NoUser \/ TasksById(t) = {}) => UNCHANGED vars
          /\ (user_id # NoUser /\ TasksById(t) # {}) => pc'[p] = "sub_upsert"
          /\ UNCHANGED <<paymentVars, tasks, subs>>
     /\ \A p \in Procs :
          pc'[p] # "idle" =>
            loc'[p].user_id # NoUser /\ TasksById(loc'[p].task_id) # {}
     /\ \A r \in subs' : r.validator_user_id # NoUser /\ TasksById(r.task_id) # {}
   ]_vars

\* C24 witness: a validator's submission for the task that exists is stored
\* and the task is still pending, a handler is free to take the next request,
\* and a task_id that no task has can be named.
SubmissionForMissingTaskPossible ==
  /\ \E p \in Procs : pc[p] = "idle"
  /\ TasksById(NumTasks + 1) = {}
  /\ \E r \in subs : ~r.fresh
  /\ \E r \in tasks : r.status = "pending" /\ r.txn = 0

\* The positions of request req's batch that have a row in the table.
Recorded(req) == {payments[i].n : i \in {j \in 1..Len(payments) : payments[j].req = req}}

\* What holds when a record_payments request answers.
PaymentsAnswer(p) ==
  LET batch == loc[p].payments
      done == Recorded(loc[p].req) IN
  /\ loc[p].code \in {200, 500}
  /\ \A i \in 1..Len(payments) :
       payments[i].req = loc[p].req => payments[i].item = batch[payments[i].n]
  /\ loc[p].code = 200 =>
       /\ loc[p].inserted = Len(batch)
       /\ done = 1..Len(batch)
  /\ loc[p].code = 500 =>
       /\ loc[p].inserted < Len(batch)
       /\ done \in {1..loc[p].inserted, 1..(loc[p].inserted + 1)}

\* C25: the rows of payments are only ever appended, none is changed or
\* removed; a record_payments request that answers 200 has recorded every
\* item of its batch and reports its size as inserted; one that has not
\* recorded every item answers 500 for the item the INSERT failed on, the
\* items before it are recorded and the ones after it were not tried.
PaymentsAppendedOrReported ==
  [][/\ Len(payments') >= Len(payments)
     /\ \A i \in 1..Len(payments) : payments'[i] = payments[i]
     /\ \A p \in Procs : pc'[p] = "pay_respond" => PaymentsAnswer(p)'
   ]_vars

\* C25 witness: of a batch of two the first item is recorded, the INSERT of
\* the second was refused and the request answers 500.
SecondPaymentRefused ==
  \E p \in Procs :
    /\ pc[p] = "pay_respond"
    /\ loc[p].code = 500
    /\ Len(loc[p].payments) = MaxPayBatch
    /\ loc[p].inserted = MaxPayBatch - 1
    /\ Refused(loc[p].payments[MaxPayBatch])
    /\ Recorded(loc[p].req) = 1..(MaxPayBatch - 1)

\* The claims some operational queue lists, for some insurance and validator.
Queued ==
  UNION {UnverifiedExternal(i) \cup ValidateDocuments(i) \cup ManualReview(i)
           \cup ManualReviewWithoutTask(i)
           \cup UNION {VerificationQueue(i, uid, inc) :
                         uid \in {NoUser} \cup Validators, inc \in BOOLEAN}
         : i \in Insurances}

\* C27: a claim whose status is approved or rejected is never pending again,
\* whatever request is served, and no operational queue lists it.
NeverPendingAgain ==
  [][/\ \A c \in claims : \A c2 \in claims' :
          (c2.claim_id = c.claim_id /\ c.status # "pending") => c2.status # "pending"
     /\ \A c \in Committed(claims') : c.status # "pending" => c.claim_id \notin Queued'
   ]_vars

\* C27 witness: one claim was approved by an operator (it is still unverified)
\* and another, approved by an auto evaluation, was rejected afterwards.
BothDecided ==
  \E c1, c2 \in Committed(claims) :
    /\ c1.status = "approved" /\ ~c1.is_verified /\ c1.txn = 0
    /\ c2.status = "rejected" /\ c2.is_verified /\ c2.txn = 0
    /\ \E e \in Committed(evals) : e.claim_id = c2.claim_id /\ IsAuto(e.bucket)

AutoScoredBy(p) ==
  {e.claim_id : e \in {e \in evals : e.txn = p /\ LOWER(e.bucket) = "auto"}}

\* C29: when a record_ai_evaluations request commits, every claim it scored
\* auto (in any letter case) is verified and approved, whatever its status
\* was, and every other claim is as it was; until then, and when the request
\* fails, the claims other requests read are as they were.
AutoOverridesDecision ==
  [][\A p \in Procs :
       /\ record_ai_evaluations_commit(p) =>
            \A c \in claims :
              IF ~c.fresh /\ c.claim_id \in AutoScoredBy(p)
              THEN [c EXCEPT !.is_verified = TRUE, !.status = "approved", !.txn = 0]
                     \in claims'
              ELSE c \in claims'
       /\ (\/ record_ai_evaluations_insert(p)
           \/ record_ai_evaluations_update(p)
           \/ record_ai_evaluations_fail(p)) =>
            /\ {[c EXCEPT !.txn = 0] : c \in claims'} = {[c EXCEPT !.txn = 0] : c \in claims}
            /\ \A c \in claims, c2 \in claims' :
                 (c2.claim_id = c.claim_id /\ c2.txn # c.txn) => p \in {c.txn, c2.txn}
   ]_vars

\* C29 witness: a request that scored a claim AUTO is about to commit, and an
\* operator had set that claim to rejected.
AutoOverRejected ==
  \E p \in Procs : \E c \in claims :
    /\ pc[p] = "rec_commit"
    /\ c.txn = p
    /\ c.status = "rejected"
    /\ \E e \in evals : e.txn = p /\ e.claim_id = c.claim_id /\ e.bucket = "AUTO"

\* The pages, page sizes and search texts a caller may send.
AnyPage == 0..(MaxClaims + 1)
AnySearch == {NULL, "", "RL", "U", "x"}

\* C30: for every insurance, page, page size and search text the
\* validate-documents listing and the manual-review-without-task listing can
\* give the same answers: the same claims in the same order with the same
\* total, or the same rejection of the page parameters.
ValidateDocumentsIsManualReviewWithoutTask ==
  \A insurance_id \in Insurances, page \in AnyPage, page_size \in AnyPage,
     search \in AnySearch :
    list_validate_documents_claims(insurance_id, page, page_size, search)
      = list_manual_review_without_task_claims(insurance_id, page, page_size, search)

\* C30 witness: both claims are listed on one page, the newer first, a page
\* of one claim leaves the other for the next page, and a claim whose latest
\* evaluations tie makes more than one answer possible.
TwoClaimsListed ==
  /\ \E r \in list_validate_documents_claims(1, 1, MaxClaims, "RL") :
       Len(r.items) = 2 /\ r.items[1] > r.items[2] /\ r.total = 2
  /\ \E r \in list_manual_review_without_task_claims(1, 2, 1, NULL) :
       Len(r.items) = 1 /\ r.total = 2
  /\ Cardinality(list_validate_documents_claims(1, 1, MaxClaims, NULL)) > 1

====
